---- MODULE Spec2Model ----
(***************************************************************************)
(* A model of the product research pipeline of GenAIProductDesc.           *)
(*                                                                         *)
(* The repository holds four independent programs that share no state:     *)
(*   app.py      the research agent with the Google -> DuckDuckGo fallback *)
(*   new_app.py  the older research agent, Google only                     *)
(*   product.py  the concurrent headless-browser scraper                   *)
(*   utils/meta_utils.py  the UPC and price-range helpers                  *)
(* Each program is a specification of its own over the variables below:    *)
(*   SpecSearch   one call of a link-discovery function                    *)
(*   SpecAgent    one run of ProductResearchAgent.research_product         *)
(*   SpecProduct  one run of scrape_product_details                        *)
(*   SpecCheckDigit  one call of check_digit_valid                         *)
(*   SpecUpc      one run of find_upc_by_product_name                      *)
(*   SpecPriceRange  one run of get_price_range                            *)
(*   SpecPrices   a run of either program that reports price ranges        *)
(*   SpecPool     a run of scrape_product_details with more links than     *)
(*                pool workers; FairSpecProduct adds its scheduling        *)
(*   SpecCurrency one application of a price classifier to a page          *)
(*                                                                         *)
(* Strings of the program that the code inspects (hrefs, URLs) are         *)
(* sequences of lexical tokens, so that startswith, split and the          *)
(* substring tests of the code are computed and not assumed.  Prices are   *)
(* integers in cents (19.99 is 1999).                                      *)
(***************************************************************************)
EXTENDS Integers, Sequences, FiniteSets, TLC

VARIABLES
    pc,          \* position of the running program
    fn,          \* which link-discovery function this call is
    max_links,   \* the max_links / num_results / max_results argument
    gpage,       \* the Google results page the call received
    dpage,       \* the DuckDuckGo results page the call received
    glinks,      \* what search_google_links returned
    dlinks,      \* what search_duckduckgo_links returned
    ddg_called,  \* whether search_duckduckgo_links was called
    links,       \* the list the link-discovery call returned
    scanned,     \* how many anchors the loop that built links looked at
    raised,      \* whether an exception left the running function
    prog,        \* which program runs: "search", "agent", "product", ...
    web,         \* what each URL answers to a fetch during this run
    query_i,     \* research_product: how many queries have been searched
    urls,        \* research_product: the links of the current query
    url_j,       \* research_product: how many of urls have been handled
    handed,      \* every link a search of this run returned, in order
    fetch_log,   \* every page fetch of this run and what it returned, in order
    all_scraped_data,  \* research_product: the successful scrapes
    task,        \* scrape_product_details: the state of each submitted future
    finished,    \* the futures that completed and as_completed has yet to yield
    results,     \* scrape_product_details: the results list
    results_from,  \* the position in links of each entry of results
    combined_result,  \* the dict scrape_product_details returns
    browser,     \* scrape_product_details: the state of the shared browser
    contexts,    \* the state of the browser context of each submitted future
    pricing,     \* what extract_pricing_info / get_price_range returned
    upc,         \* what extract_upc_code / find_upc_by_product_name returned
    validate_check_digit,  \* the argument of find_upc_by_product_name
    examined,    \* every UPC candidate a run looked at and what it did with it
    product_info,  \* the text fields of the ProductInfo research_product returns
    upc_str,     \* the argument of check_digit_valid
    digit_valid,  \* what check_digit_valid returned
    price_usd,   \* get_price_range: the USD prices collected so far
    price_cad,   \* get_price_range: the CAD prices collected so far
    priced_page,  \* the page a price classifier is applied to
    price_lists  \* the USD and the CAD list the classifier built from it

search_vars == <<fn, max_links, gpage, dpage, glinks, dlinks, ddg_called, links, scanned>>
agent_vars == <<query_i, urls, url_j, handed, fetch_log, all_scraped_data>>
product_vars == <<task, finished, results, results_from, combined_result, browser, contexts>>
report_vars == <<pricing, upc, validate_check_digit, examined, product_info>>
meta_vars == <<upc_str, digit_valid, price_usd, price_cad>>

----------------------------------------------------------------------------
(* Bounds of the model. *)

\* the longest results page, in anchors
MaxAnchors == 2
\* the longest text, in price tokens, a price classifier is applied to
MaxTokens == 2
\* the largest max_links argument tried (0 is tried too)
MaxLinks == 2
\* how many of the search queries of a research run are modelled
NQueries == 2

----------------------------------------------------------------------------
(* Strings as token sequences. *)

\* The substrings of a token that some test of the code looks for.
SubstringsOf(tok) ==
    CASE tok = "google.com" -> {"google", "google.com", ".com"}
      [] tok = "youtube.com" -> {"youtube.com", ".com"}
      [] tok = "facebook.com" -> {"facebook.com", ".com"}
      [] tok = "instagram.com" -> {"instagram.com", ".com"}
      [] tok = "duckduckgo.com" -> {"duckduckgo.com", ".com"}
      [] tok = "shop.com" -> {"shop.com", ".com"}
      [] tok = "store.ca" -> {"store.ca", ".ca"}
      [] tok = "camping.com" -> {"camping.com", ".com", ".ca"}
      [] tok = "https://" -> {"http", "https://"}
      [] OTHER -> {tok}

\* Python's  needle in s
Contains(s, needle) == \E i \in 1..Len(s) : needle \in SubstringsOf(s[i])

\* Python's  s.startswith(prefix)
StartsWith(s, prefix) ==
    /\ Len(s) > 0
    /\ \/ s[1] = prefix
       \/ s[1] = "https://" /\ prefix = "http"

\* The index of the first occurrence of token sep in s, or 0.
RECURSIVE IndexFrom(_, _, _)
IndexFrom(s, sep, i) ==
    IF i > Len(s) THEN 0
    ELSE IF s[i] = sep THEN i
    ELSE IndexFrom(s, sep, i + 1)

\* Python's  s.split(sep)[0]
SplitHead(s, sep) ==
    LET k == IndexFrom(s, sep, 1)
    IN  IF k = 0 THEN s ELSE SubSeq(s, 1, k - 1)

\* Python's  s.split(sep)[1], for an s that holds sep
SplitSecond(s, sep) ==
    LET k == IndexFrom(s, sep, 1)
    IN  SplitHead(SubSeq(s, k + 1, Len(s)), sep)

----------------------------------------------------------------------------
(* The anchors a results page can hold. *)

WRAP == "/url?q="

G_SHOP     == <<WRAP, "https://", "shop.com", "/p", "&", "sa=U">>
G_SHOP_REF == <<WRAP, "https://", "shop.com", "/p", "?ref=1", "&", "sa=U">>
G_STORE    == <<WRAP, "https://", "store.ca", "/q">>
G_YOUTUBE  == <<WRAP, "https://", "youtube.com", "/watch", "&", "sa=U">>
G_FACEBOOK == <<WRAP, "https://", "facebook.com", "/brand">>
G_GOOGLE   == <<WRAP, "https://", "google.com", "/maps">>
G_FRAGMENT == <<WRAP, "#", "top">>
G_INTERNAL == <<"/search", "?q=x">>

D_SHOP      == <<"https://", "shop.com", "/p">>
D_STORE     == <<"https://", "store.ca", "/q">>
D_SELF      == <<"https://", "duckduckgo.com", "/about">>
D_INSTAGRAM == <<"https://", "instagram.com", "/brand">>
D_RELATIVE  == <<"/settings">>

\* All sequences over S of length at most n.
SeqsUpTo(S, n) == UNION {[1..k -> S] : k \in 0..n}

\* A results page: the request failed (navigation error, timeout, no anchor
\* appeared), or it holds these anchors in document order.
PagesOf(hrefs) ==
    {[err |-> TRUE, anchors |-> <<>>]}
        \cup {[err |-> FALSE, anchors |-> a] : a \in SeqsUpTo(hrefs, MaxAnchors)}

GooglePages ==
    PagesOf({G_SHOP, G_SHOP_REF, G_STORE, G_YOUTUBE, G_FACEBOOK, G_GOOGLE, G_FRAGMENT,
             G_INTERNAL})
DuckPages == PagesOf({D_SHOP, D_STORE, D_SELF, D_INSTAGRAM, D_RELATIVE})
NoPage == [err |-> FALSE, anchors |-> <<>>]

----------------------------------------------------------------------------
(* The web: what a fetched URL answers. *)

\* The links the anchors above lead to.
U_SHOP     == <<"https://", "shop.com", "/p">>
U_SHOP_REF == <<"https://", "shop.com", "/p", "?ref=1">>
U_STORE    == <<"https://", "store.ca", "/q">>

URLs == {U_SHOP, U_SHOP_REF, U_STORE}

\* A price as it stands in the text of a page: a currency marker and a number.
Tok(mark, cents) == [mark |-> mark, cents |-> cents]

\* The characters of the decimal digits: a 12-digit string is a sequence of
\* twelve of them.
DigitChars == <<"0", "1", "2", "3", "4", "5", "6", "7", "8", "9">>

\* The string of a sequence of digit values.
Str(ds) == [i \in 1..Len(ds) |-> DigitChars[ds[i] + 1]]

\* 12-digit runs of the pages: four whose 12th digit is the UPC-A check
\* digit of the rest (one of them with check digit 0), two where it is not.
UPC_V1 == Str(<<0, 3, 6, 0, 0, 0, 2, 9, 1, 4, 5, 2>>)
UPC_V2 == Str(<<1, 2, 3, 4, 5, 6, 7, 8, 9, 0, 1, 2>>)
UPC_V0 == Str(<<0, 5, 0, 5, 0, 0, 0, 0, 0, 0, 0, 0>>)
UPC_V3 == Str(<<4, 0, 0, 0, 0, 0, 0, 0, 0, 0, 0, 8>>)
UPC_X1 == Str(<<0, 3, 6, 0, 0, 0, 2, 9, 1, 4, 5, 7>>)
UPC_X2 == Str(<<9, 9, 9, 9, 9, 9, 9, 9, 9, 9, 9, 9>>)

\* A 12-digit run as it stands in the text of a page: the label before it
\* ("UPC", "Barcode", "Product Code", or "" for none) and its digits.
Run(label, digits) == [label |-> label, digits |-> digits]

\* A document: what the extractors of the programs find in its HTML.  kw is
\* the number of product keywords in title, meta description and body, len
\* the length of the body text in characters, prices and upcs the price
\* tokens and the 12-digit runs of the text in text order, canada and usa
\* whether the lower-cased text holds "canada" and "usa".
DOC_A ==
    [name |-> "A", title |-> "A title", meta |-> "A meta", short |-> "A short",
     long |-> "A long", how |-> "", ingr |-> "A ingr", kw |-> 3, len |-> 400,
     prices |-> <<Tok("$", 1999)>>,
     upcs |-> <<Run("", UPC_X1), Run("UPC", UPC_V1)>>, canada |-> FALSE, usa |-> TRUE]
DOC_B ==
    [name |-> "B", title |-> "B title", meta |-> "", short |-> "B short",
     long |-> "", how |-> "B how", ingr |-> "", kw |-> 2, len |-> 150,
     prices |-> <<Tok("$", 4500)>>,
     upcs |-> <<Run("", UPC_V2), Run("Barcode", UPC_V0)>>, canada |-> TRUE, usa |-> FALSE]
DOC_C ==
    [name |-> "C", title |-> "C title", meta |-> "C meta", short |-> "",
     long |-> "C long", how |-> "C how", ingr |-> "C ingr", kw |-> 4, len |-> 900,
     prices |-> <<Tok("$", 300), Tok("CAD", 2500)>>,
     upcs |-> <<Run("", UPC_X2)>>, canada |-> FALSE, usa |-> FALSE]
\* a page that is no product page: a consent wall, a bot check
DOC_JUNK ==
    [name |-> "junk", title |-> "Access denied", meta |-> "", short |-> "",
     long |-> "", how |-> "", ingr |-> "", kw |-> 0, len |-> 40,
     prices |-> <<>>, upcs |-> <<>>, canada |-> FALSE, usa |-> FALSE]
\* the body a server sends with a 404
DOC_NOTFOUND ==
    [name |-> "notfound", title |-> "Not Found", meta |-> "", short |-> "Page not found",
     long |-> "", how |-> "", ingr |-> "", kw |-> 1, len |-> 60,
     prices |-> <<Tok("$", 999)>>,
     upcs |-> <<Run("", UPC_V3)>>, canada |-> FALSE, usa |-> FALSE]
DOC_NONE ==
    [name |-> "", title |-> "", meta |-> "", short |-> "",
     long |-> "", how |-> "", ingr |-> "", kw |-> 0, len |-> 0,
     prices |-> <<>>, upcs |-> <<>>, canada |-> FALSE, usa |-> FALSE]

\* What a URL answers: the request fails (fail names how), or a response
\* with a status and a body arrives.
Answer(fail, status, doc) == [fail |-> fail, status |-> status, doc |-> doc]

\* The answers of the model, by name.
AnswerNames == {"A", "B", "C", "junk", "404", "network", "timeout", "parse"}

AnswerOf(name) ==
    CASE name = "A" -> Answer("none", 200, DOC_A)
      [] name = "B" -> Answer("none", 200, DOC_B)
      [] name = "C" -> Answer("none", 200, DOC_C)
      [] name = "junk" -> Answer("none", 200, DOC_JUNK)
      [] name = "404" -> Answer("none", 404, DOC_NOTFOUND)
      [] name = "network" -> Answer("network", 0, DOC_NONE)
      [] name = "timeout" -> Answer("timeout", 0, DOC_NONE)
      [] name = "parse" -> Answer("parse", 200, DOC_NONE)

\* The web of one run, as the name of the answer of each URL: the page
\* contents are fixed while the run lasts, and a tracking parameter does not
\* change the page served.
Webs ==
    {[u \in URLs |-> IF u = U_STORE THEN b ELSE a] : a \in AnswerNames, b \in AnswerNames}

NoWeb == [u \in URLs |-> "network"]

\* What url answers in this run.
Served(url) == AnswerOf(web[url])

----------------------------------------------------------------------------
(* Link discovery: the loops over the anchors of a results page. *)

\* href.split("/url?q=")[1].split("&")[0]
clean_link(href) == SplitHead(SplitSecond(href, WRAP), "&")

\* app.py 98-101: the test an anchor passes to become a Google link.
AppGoogleKeeps(href) ==
    /\ StartsWith(href, WRAP)
    /\ ~ Contains(clean_link(href), "google")
    /\ ~ StartsWith(clean_link(href), "#")
    /\ \A domain \in {"youtube.com", "facebook.com", "instagram.com"} :
          ~ Contains(clean_link(href), domain)

\* app.py 127-128: the test an anchor passes to become a DuckDuckGo link.
AppDuckKeeps(href) ==
    /\ StartsWith(href, "http")
    /\ \A domain \in {"duckduckgo.com", "youtube.com", "facebook.com", "instagram.com"} :
          ~ Contains(href, domain)

\* new_app.py 165-167, without the length test.
NewAppKeeps(href) ==
    /\ StartsWith(href, WRAP)
    /\ ~ Contains(clean_link(href), "google.com")
    /\ ~ Contains(clean_link(href), "youtube.com")

\* meta_utils.py 24-26.
FindUpcKeeps(href) ==
    /\ StartsWith(href, WRAP)
    /\ ~ Contains(clean_link(href), "google")

\* meta_utils.py 85-87.
PriceRangeKeeps(href) ==
    /\ StartsWith(href, WRAP)
    /\ ~ Contains(clean_link(href), "google.com")

\* The loop of app.py 96-105 (and of product.py 24-32, meta_utils.py 22-29
\* and 83-90): append, then test the length and break.  which names the test
\* and the link taken from a kept anchor.
Keeps(which, href) ==
    CASE which = "app_google" -> AppGoogleKeeps(href)
      [] which = "product" -> AppGoogleKeeps(href)
      [] which = "app_duck" -> AppDuckKeeps(href)
      [] which = "new_app" -> NewAppKeeps(href)
      [] which = "find_upc" -> FindUpcKeeps(href)
      [] which = "price_range" -> PriceRangeKeeps(href)

LinkOf(which, href) == IF which = "app_duck" THEN href ELSE clean_link(href)

RECURSIVE ScanBreak(_, _, _, _, _)
ScanBreak(which, elements, i, acc, max) ==
    IF i > Len(elements) THEN [links |-> acc, scanned |-> Len(elements)]
    ELSE LET e == elements[i]
             acc2 == IF Keeps(which, e) THEN Append(acc, LinkOf(which, e)) ELSE acc
         IN  IF Len(acc2) >= max
             THEN [links |-> acc2, scanned |-> i]
             ELSE ScanBreak(which, elements, i + 1, acc2, max)

\* The loop of new_app.py 163-168: the length is tested before the append,
\* and the loop has no break.
RECURSIVE ScanAll(_, _, _, _, _)
ScanAll(which, elements, i, acc, max) ==
    IF i > Len(elements) THEN [links |-> acc, scanned |-> Len(elements)]
    ELSE LET e == elements[i]
             acc2 == IF Keeps(which, e) /\ Len(acc) < max
                     THEN Append(acc, LinkOf(which, e)) ELSE acc
         IN  ScanAll(which, elements, i + 1, acc2, max)

Caught == [links |-> <<>>, scanned |-> 0, raised |-> FALSE]
Uncaught == [links |-> <<>>, scanned |-> 0, raised |-> TRUE]
Returned(r) == [links |-> r.links, scanned |-> r.scanned, raised |-> FALSE]

\* app.py 84-111: every exception is caught and becomes [].
search_google_links(page, max) ==
    IF page.err THEN Caught
    ELSE Returned(ScanBreak("app_google", page.anchors, 1, <<>>, max))

\* app.py 113-138.
search_duckduckgo_links(page, max) ==
    IF page.err THEN Caught
    ELSE Returned(ScanBreak("app_duck", page.anchors, 1, <<>>, max))

\* The test written as  if results is None:  a failed search returns [], never
\* None, so the fallback would never run.
NeedsFallbackIsNone(found) == FALSE

\* app.py 143: google_search falls back when the Google list is empty.
NeedsFallback(found) == found = <<>>

\* new_app.py 155-172: every exception is caught and becomes [].
new_app_google_search(page, max) ==
    IF page.err THEN Caught
    ELSE Returned(ScanAll("new_app", page.anchors, 1, <<>>, max))

\* product.py 16-34: nothing is caught.
search_product_links(page, max) ==
    IF page.err THEN Uncaught
    ELSE Returned(ScanBreak("product", page.anchors, 1, <<>>, max))

\* meta_utils.py 14-29: the request is outside every try.
find_upc_links(page, max) ==
    IF page.err THEN Uncaught
    ELSE Returned(ScanBreak("find_upc", page.anchors, 1, <<>>, max))

\* meta_utils.py 75-90.
price_range_links(page, max) ==
    IF page.err THEN Uncaught
    ELSE Returned(ScanBreak("price_range", page.anchors, 1, <<>>, max))

----------------------------------------------------------------------------
(* product.py: extraction from one page, and the merge of the pages. *)

\* Python's None, among prices that are all >= 0 (product.py 129-132).
None == -1

TextKeys ==
    {"meta_title", "meta_description", "short_description", "long_description",
     "how_to_use", "ingredients"}

\* The numbers of the tokens of text whose marker is in marks, in text order.
RECURSIVE NumbersAt(_, _)
NumbersAt(text, marks) ==
    IF text = <<>> THEN <<>>
    ELSE (IF Head(text).mark \in marks THEN <<Head(text).cents>> ELSE <<>>)
            \o NumbersAt(Tail(text), marks)

\* product.py 62-72.  66: (?:USD|US|\$)\s?(\d+(?:\.\d{1,2})?) finds a number
\* at USD, US$ and $, and its \$ also matches inside C$ and CA$.
\* 69: (?:CAD|C\$)\s?(\d+(?:\.\d{1,2})?) finds a number at CAD and C$.
extract_prices(text) ==
    [usd |-> NumbersAt(text, {"$", "USD", "US$", "C$", "CA$"}),
     cad |-> NumbersAt(text, {"CAD", "C$"})]

\* product.py 75-102: the dict of one page.
extract_product_info_from_html(doc) ==
    [keys |-> TextKeys \cup {"usd_prices", "cad_prices"},
     meta_title |-> doc.title,
     meta_description |-> doc.meta,
     short_description |-> doc.short,
     long_description |-> doc.long,
     how_to_use |-> doc.how,
     ingredients |-> doc.ingr,
     usd_prices |-> extract_prices(doc.prices).usd,
     cad_prices |-> extract_prices(doc.prices).cad,
     raised |-> FALSE]

\* product.py 105-115: page.goto does not fail on a 4xx or 5xx status, so the
\* body of any response is extracted; every exception becomes a dict with
\* the key error.
scrape_url(url, answer) ==
    IF answer.fail = "none" THEN extract_product_info_from_html(answer.doc)
    ELSE [keys |-> {"error", "usd_prices", "cad_prices"},
          meta_title |-> "", meta_description |-> "", short_description |-> "",
          long_description |-> "", how_to_use |-> "", ingredients |-> "",
          usd_prices |-> <<>>, cad_prices |-> <<>>, raised |-> FALSE]

\* product.py 122-134.
InitialResult(source_links) ==
    [meta_title |-> "", meta_description |-> "", short_description |-> "",
     long_description |-> "", how_to_use |-> "", ingredients |-> "",
     min_price_usd |-> None, max_price_usd |-> None,
     min_price_cad |-> None, max_price_cad |-> None,
     source_links |-> source_links]

\* A minimum that is the first price seen, not the smallest.
MinIsFirst(prices) == prices[1]

\* Python's min and max of a non-empty list.
Min(prices) ==
    CHOOSE x \in {prices[i] : i \in 1..Len(prices)} :
        \A j \in 1..Len(prices) : x <= prices[j]
Max(prices) ==
    CHOOSE x \in {prices[i] : i \in 1..Len(prices)} :
        \A j \in 1..Len(prices) : x >= prices[j]

\* product.py 152-154: the text fields after res is merged into acc.
MergeText(acc, res) ==
    [k \in TextKeys |-> IF acc[k] = "" /\ res[k] # "" THEN res[k] ELSE acc[k]]

\* product.py 151-156: the loop over results, from entry i on.
RECURSIVE MergeLoop(_, _, _)
MergeLoop(acc, rs, i) ==
    IF i > Len(rs) THEN acc
    ELSE MergeLoop([text |-> MergeText(acc.text, rs[i]),
                    usd |-> acc.usd \o rs[i].usd_prices,
                    cad |-> acc.cad \o rs[i].cad_prices], rs, i + 1)

\* A merge that keeps in source_links only the links whose page was merged,
\* in the order the pages were merged.
MergeKeepsMergedLinks(initial, rs) ==
    LET m == MergeLoop([text |-> [k \in TextKeys |-> initial[k]],
                        usd |-> <<>>, cad |-> <<>>], rs, 1)
    IN  [meta_title |-> m.text["meta_title"],
         meta_description |-> m.text["meta_description"],
         short_description |-> m.text["short_description"],
         long_description |-> m.text["long_description"],
         how_to_use |-> m.text["how_to_use"],
         ingredients |-> m.text["ingredients"],
         min_price_usd |-> IF m.usd # <<>> THEN Min(m.usd) ELSE initial.min_price_usd,
         max_price_usd |-> IF m.usd # <<>> THEN Max(m.usd) ELSE initial.max_price_usd,
         min_price_cad |-> IF m.cad # <<>> THEN Min(m.cad) ELSE initial.min_price_cad,
         max_price_cad |-> IF m.cad # <<>> THEN Max(m.cad) ELSE initial.max_price_cad,
         source_links |-> [k \in 1..Len(results_from) |-> links[results_from[k]]]]

\* product.py 149-165: the merge of results into the initial combined_result.
Merge(initial, rs) ==
    LET m == MergeLoop([text |-> [k \in TextKeys |-> initial[k]],
                        usd |-> <<>>, cad |-> <<>>], rs, 1)
    IN  [meta_title |-> m.text["meta_title"],
         meta_description |-> m.text["meta_description"],
         short_description |-> m.text["short_description"],
         long_description |-> m.text["long_description"],
         how_to_use |-> m.text["how_to_use"],
         ingredients |-> m.text["ingredients"],
         min_price_usd |-> IF m.usd # <<>> THEN Min(m.usd) ELSE initial.min_price_usd,
         max_price_usd |-> IF m.usd # <<>> THEN Max(m.usd) ELSE initial.max_price_usd,
         min_price_cad |-> IF m.cad # <<>> THEN Min(m.cad) ELSE initial.min_price_cad,
         max_price_cad |-> IF m.cad # <<>> THEN Max(m.cad) ELSE initial.max_price_cad,
         source_links |-> initial.source_links]

----------------------------------------------------------------------------
(* SpecSearch: one call of a link-discovery function. *)

\* The variables of research_product before a run, and in the other programs.
AgentIdle ==
    /\ query_i = 0
    /\ urls = <<>>
    /\ url_j = 0
    /\ handed = <<>>
    /\ fetch_log = <<>>
    /\ all_scraped_data = <<>>

\* The variables of scrape_product_details before a run, and in the other
\* programs.
ProductIdle ==
    /\ task = <<>>
    /\ finished = <<>>
    /\ results = <<>>
    /\ results_from = <<>>
    /\ combined_result = InitialResult(<<>>)
    /\ browser = "none"
    /\ contexts = <<>>

\* The results of a run before it has produced any.
NoPricing == [ca_low |-> None, ca_high |-> None, us_low |-> None, us_high |-> None]

NoProductInfo ==
    [meta_title |-> "", meta_description |-> "", short_description |-> "",
     full_description |-> "", how_to_use |-> "", ingredients |-> ""]

\* No price classifier has been applied.
CurrencyIdle ==
    /\ priced_page = [url |-> <<>>, text |-> <<>>, canada |-> FALSE, usa |-> FALSE]
    /\ price_lists = [by |-> "none", usd |-> <<>>, cad |-> <<>>]

ReportIdle ==
    /\ pricing = NoPricing
    /\ upc = <<>>
    /\ examined = <<>>
    /\ product_info = NoProductInfo
    /\ digit_valid = FALSE
    /\ price_usd = <<>>
    /\ price_cad = <<>>

InitSearch ==
    /\ prog = "search"
    /\ CurrencyIdle
    /\ ReportIdle
    /\ validate_check_digit = FALSE
    /\ upc_str = <<>>
    /\ web = NoWeb
    /\ AgentIdle
    /\ ProductIdle
    /\ pc = "start"
    /\ fn = "none"
    /\ max_links \in 0..MaxLinks
    /\ gpage = NoPage
    /\ dpage = NoPage
    /\ glinks = <<>>
    /\ dlinks = <<>>
    /\ ddg_called = FALSE
    /\ links = <<>>
    /\ scanned = 0
    /\ raised = FALSE

\* app.py 140-143: google_search runs search_google_links.
GoogleSearchPrimary ==
    /\ prog = "search"
    /\ pc = "start"
    /\ \E page \in GooglePages :
         LET r == search_google_links(page, max_links)
         IN  /\ gpage' = page
             /\ glinks' = r.links
             /\ links' = r.links
             /\ scanned' = r.scanned
             /\ raised' = r.raised
             /\ pc' = IF r.raised THEN "done"
                      ELSE IF NeedsFallback(r.links) THEN "fallback" ELSE "done"
    /\ fn' = "google_search"
    /\ UNCHANGED <<max_links, dpage, dlinks, ddg_called, prog, web, priced_page, price_lists, report_vars,
                   agent_vars, product_vars, meta_vars>>

\* app.py 143-146: the fallback to search_duckduckgo_links, and the return.
GoogleSearchFallback ==
    /\ prog = "search"
    /\ pc = "fallback"
    /\ \E page \in DuckPages :
         LET r == search_duckduckgo_links(page, max_links)
         IN  /\ dpage' = page
             /\ dlinks' = r.links
             /\ links' = r.links
             /\ scanned' = r.scanned
             /\ raised' = r.raised
    /\ ddg_called' = TRUE
    /\ pc' = "done"
    /\ UNCHANGED <<fn, max_links, gpage, glinks, prog, web, priced_page, price_lists, report_vars, agent_vars,
                   product_vars, meta_vars>>

\* A call of one of the single-backend functions.
Single(name, r, page) ==
    /\ fn' = name
    /\ gpage' = page
    /\ links' = r.links
    /\ scanned' = r.scanned
    /\ raised' = r.raised
    /\ pc' = "done"
    /\ UNCHANGED <<max_links, dpage, glinks, dlinks, ddg_called, prog, web, priced_page, price_lists, report_vars,
                   agent_vars, product_vars, meta_vars>>

NewAppGoogleSearch ==
    /\ prog = "search"
    /\ pc = "start"
    /\ \E page \in GooglePages :
         Single("new_app", new_app_google_search(page, max_links), page)

SearchProductLinks ==
    /\ prog = "search"
    /\ pc = "start"
    /\ \E page \in GooglePages :
         Single("product", search_product_links(page, max_links), page)

FindUpcLinks ==
    /\ prog = "search"
    /\ pc = "start"
    /\ \E page \in GooglePages :
         Single("find_upc", find_upc_links(page, max_links), page)

PriceRangeLinks ==
    /\ prog = "search"
    /\ pc = "start"
    /\ \E page \in GooglePages :
         Single("price_range", price_range_links(page, max_links), page)

NextSearch ==
    \/ GoogleSearchPrimary
    \/ GoogleSearchFallback
    \/ NewAppGoogleSearch
    \/ SearchProductLinks
    \/ FindUpcLinks
    \/ PriceRangeLinks

vars ==
    <<pc, fn, max_links, gpage, dpage, glinks, dlinks, ddg_called, links, scanned, raised,
      prog, web, query_i, urls, url_j, handed, fetch_log, all_scraped_data,
      task, finished, results, results_from, combined_result, browser, contexts,
      pricing, upc, validate_check_digit, examined, product_info,
      upc_str, digit_valid, price_usd, price_cad,
      priced_page, price_lists>>

SpecSearch == InitSearch /\ [][NextSearch]_vars

----------------------------------------------------------------------------
(* SpecAgent: one run of ProductResearchAgent.research_product (app.py). *)

\* app.py 448: the number of links asked of each query.
NumResults == 3

\* app.py 140-146: the whole of google_search, as research_product calls it.
google_search(g, d, max) ==
    LET r == search_google_links(g, max)
    IN  IF NeedsFallback(r.links) THEN search_duckduckgo_links(d, max).links
        ELSE r.links

\* The results pages a query of a research run is answered with.
AgentGooglePages ==
    {[err |-> TRUE, anchors |-> <<>>],
     [err |-> FALSE, anchors |-> <<G_INTERNAL>>],
     [err |-> FALSE, anchors |-> <<G_SHOP_REF>>],
     [err |-> FALSE, anchors |-> <<G_YOUTUBE, G_SHOP, G_STORE>>]}

AgentDuckPages ==
    {[err |-> TRUE, anchors |-> <<>>],
     [err |-> FALSE, anchors |-> <<D_SHOP>>],
     [err |-> FALSE, anchors |-> <<D_SELF, D_STORE>>]}

\* Python's  s[:n]
TakeFirst(s, n) == SubSeq(s, 1, IF Len(s) < n THEN Len(s) ELSE n)

\* app.py 182-194: the strings the price patterns find, pattern by pattern.
\* \$[\d,]+\.?\d* finds "$n" wherever a $ stands before the number (also in
\* US$, C$ and CA$), and the CAD and USD patterns find "CAD n" and "USD n".
PatternPrices(text) ==
    LET dollar == NumbersAt(text, {"$", "US$", "C$", "CA$"})
        cad == NumbersAt(text, {"CAD"})
        usd == NumbersAt(text, {"USD"})
    IN  [i \in 1..Len(dollar) |-> Tok("$", dollar[i])]
            \o [i \in 1..Len(cad) |-> Tok("CAD", cad[i])]
            \o [i \in 1..Len(usd) |-> Tok("USD", usd[i])]

\* The runs of text with this label, in text order.
RECURSIVE Labelled(_, _)
Labelled(runs, label) ==
    IF runs = <<>> THEN <<>>
    ELSE (IF Head(runs).label = label THEN <<Head(runs).digits>> ELSE <<>>)
            \o Labelled(Tail(runs), label)

\* The digits of every run of text, in text order: what \b\d{12}\b finds.
AllRuns(runs) == [i \in 1..Len(runs) |-> runs[i].digits]

\* app.py 197-207: the matches of the UPC patterns, pattern by pattern.
PatternUpcs(runs) ==
    Labelled(runs, "UPC") \o Labelled(runs, "Barcode")
        \o Labelled(runs, "Product Code") \o AllRuns(runs)

\* app.py 212-220: the dict of a page that was fetched and parsed.
Scraped(url, doc) ==
    [raised |-> FALSE,
     keys |-> {"url", "content", "prices", "upc_codes", "product_details", "title",
               "meta_description"},
     url |-> url, error |-> "",
     content |-> doc.name, canada |-> doc.canada, usa |-> doc.usa,
     prices |-> TakeFirst(PatternPrices(doc.prices), 10),
     upc_codes |-> TakeFirst(PatternUpcs(doc.upcs), 5),
     title |-> doc.title, meta_description |-> doc.meta]

\* app.py 222-223: the dict of a fetch that failed.
ScrapeError(url, fail) ==
    [raised |-> FALSE, keys |-> {"url", "error"}, url |-> url, error |-> fail,
     content |-> "", canada |-> FALSE, usa |-> FALSE, prices |-> <<>>,
     upc_codes |-> <<>>, title |-> "", meta_description |-> ""]

\* The handler written as  except requests.RequestException:  an error of the
\* parser is no request error and leaves the function.
scrape_website_request_errors_only(url, answer) ==
    IF answer.fail = "none" THEN Scraped(url, answer.doc)
    ELSE [ScrapeError(url, answer.fail) EXCEPT !.raised = answer.fail = "parse"]

\* app.py 165-223: the response is parsed whatever its status; every
\* exception becomes a dict with the keys url and error.
scrape_website(url, answer) ==
    IF answer.fail = "none" THEN Scraped(url, answer.doc)
    ELSE ScrapeError(url, answer.fail)

\* app.py 280-282: the test that makes a price string Canadian.
IsCanadian(price, data) ==
    \/ price.mark = "CAD"
    \/ Contains(data.url, ".ca")
    \/ data.canada

\* app.py 284-287: the test of the elif branch, for the US list.
IsAmerican(price, data) ==
    /\ ~ IsCanadian(price, data)
    /\ \/ price.mark = "USD"
       \/ Contains(data.url, ".com")
       \/ data.usa
       \/ price.mark = "$"

\* app.py 270-290: the numbers of the price strings of scraped_data that go
\* to the Canadian list (canadian = TRUE) or to the US list.
RECURSIVE PricesOf(_, _)
PricesOf(scraped_data, canadian) ==
    IF scraped_data = <<>> THEN <<>>
    ELSE LET data == Head(scraped_data)
             Goes(price) == IF canadian THEN IsCanadian(price, data)
                            ELSE IsAmerican(price, data)
             kept == SelectSeq(data.prices, Goes)
         IN  [i \in 1..Len(kept) |-> kept[i].cents] \o PricesOf(Tail(scraped_data), canadian)

\* app.py 293-294: the bounds of the filter, 5 and 200, in cents.
BandLow == 500
BandHigh == 20000

\* app.py 293-294: [p for p in prices if 5 <= p <= 200]
Realistic(prices) ==
    LET InBand(p) == BandLow <= p /\ p <= BandHigh
    IN  SelectSeq(prices, InBand)

\* app.py 298-299 and 301-302: the lists random.uniform can produce, at the
\* ends of the ranges of the base price and of the three offsets.
RandomPrices(base_low, base_high, off_low, off_high) ==
    {<<base + off_low, base + off_high, base>> : base \in {base_low, base_high}}


\* app.py 265-313: drawn_ca and drawn_us are what the random generator gives
\* if it is asked.  The result holds the numbers of the four formatted
\* strings, in cents.
extract_pricing_info(scraped_data, drawn_ca, drawn_us) ==
    LET found_ca == Realistic(PricesOf(scraped_data, TRUE))
        found_us == Realistic(PricesOf(scraped_data, FALSE))
        canada_prices == IF found_ca = <<>> THEN drawn_ca ELSE found_ca
        usa_prices == IF found_us = <<>> THEN drawn_us ELSE found_us
    IN  [ca_low |-> Min(canada_prices), ca_high |-> Max(canada_prices),
         us_low |-> Min(usa_prices), us_high |-> Max(usa_prices)]

\* Python's  len(upc) == 12 and upc.isdigit()
IsTwelveDigits(s) ==
    /\ Len(s) = 12
    /\ \A i \in 1..Len(s) : \E n \in 1..10 : DigitChars[n] = s[i]

\* app.py 325: strings random.randint(100000000000, 999999999999) can give.
RandomUpcs ==
    {Str(<<1, 0, 0, 0, 0, 0, 0, 0, 0, 0, 0, 0>>), Str(<<4, 0, 0, 0, 0, 0, 0, 0, 0, 0, 0, 7>>),
     Str(<<9, 9, 9, 9, 9, 9, 9, 9, 9, 9, 9, 9>>)}

\* app.py 315-325: the first upc_codes entry of twelve digits, in the order
\* of scraped_data; drawn is what the random generator gives if it is asked.
RECURSIVE extract_upc_code(_, _)
extract_upc_code(scraped_data, drawn) ==
    IF scraped_data = <<>> THEN drawn
    ELSE LET ok == SelectSeq(Head(scraped_data).upc_codes, IsTwelveDigits)
         IN  IF ok # <<>> THEN ok[1]
             ELSE extract_upc_code(Tail(scraped_data), drawn)

\* What the text generation service answers: nothing (the request failed,
\* or the status was not 200, or the text was empty), a text with the six
\* numbered sections, or a text without them.
AiResponses == {"none", "sections", "prose"}

\* app.py 67-73: generate_content returns the text, or None.
generate_content(answer) == IF answer = "none" THEN "None" ELSE answer

\* app.py 404-427: re.search on None raises TypeError; a section that is not
\* found is the empty string.
parse_ai_response(ai_response) ==
    IF ai_response = "None"
    THEN [raised |-> TRUE, sections |-> NoProductInfo]
    ELSE IF ai_response = "sections"
    THEN [raised |-> FALSE,
          sections |-> [meta_title |-> "ai title", meta_description |-> "ai meta",
                        short_description |-> "ai short", full_description |-> "ai full",
                        how_to_use |-> "ai how", ingredients |-> "ai ingredients"]]
    ELSE [raised |-> FALSE, sections |-> NoProductInfo]

\* A loop over the queries that ends after its first pass.
AfterUrlsEndsLoop(qi) == "combine"

\* Where research_product goes when the links of a query are used up.
AfterUrls(qi) == IF qi < NQueries THEN "search" ELSE "combine"

InitAgent ==
    /\ prog = "agent"
    /\ CurrencyIdle
    /\ ReportIdle
    /\ validate_check_digit = FALSE
    /\ upc_str = <<>>
    /\ web \in Webs
    /\ AgentIdle
    /\ ProductIdle
    /\ pc = "search"
    /\ fn = "none"
    /\ max_links = NumResults
    /\ gpage = NoPage
    /\ dpage = NoPage
    /\ glinks = <<>>
    /\ dlinks = <<>>
    /\ ddg_called = FALSE
    /\ links = <<>>
    /\ scanned = 0
    /\ raised = FALSE

\* app.py 446-449: the next query is searched.
AgentSearch ==
    /\ prog = "agent" /\ pc = "search" /\ query_i < NQueries
    /\ \E g \in AgentGooglePages, d \in AgentDuckPages :
         LET found == google_search(g, d, NumResults)
         IN  /\ urls' = found
             /\ handed' = handed \o found
             /\ pc' = IF found = <<>> THEN AfterUrls(query_i + 1) ELSE "scrape"
    /\ query_i' = query_i + 1
    /\ url_j' = 0
    /\ UNCHANGED <<search_vars, raised, prog, web, priced_page, price_lists, report_vars, fetch_log,
                   all_scraped_data, product_vars, meta_vars>>

\* app.py 451-458: one pass of the loop over the links of the query.  An
\* exception of scrape_website is swallowed by the bare except.
AgentScrape ==
    /\ prog = "agent" /\ pc = "scrape" /\ url_j < Len(urls)
    /\ LET url == urls[url_j + 1]
           scraped == scrape_website(url, Served(url))
       IN  /\ fetch_log' = Append(fetch_log, [url |-> url, out |-> scraped])
           /\ all_scraped_data' =
                IF ~ scraped.raised /\ "content" \in scraped.keys
                THEN Append(all_scraped_data, scraped)
                ELSE all_scraped_data
    /\ url_j' = url_j + 1
    /\ pc' = IF url_j + 1 = Len(urls) THEN AfterUrls(query_i) ELSE "scrape"
    /\ UNCHANGED <<search_vars, raised, prog, web, priced_page, price_lists, report_vars, query_i, urls, handed,
                   product_vars, meta_vars>>

\* app.py 462-470: the scraped data is combined, pricing and upc extracted.
\* The random lists are those of app.py 298-299 (base 15..45, offsets -5..10)
\* and 301-302 (base 12..35, offsets -3..8), in cents.
AgentCombine ==
    /\ prog = "agent" /\ pc = "combine"
    /\ \E drawn_ca \in RandomPrices(1500, 4500, -500, 1000),
          drawn_us \in RandomPrices(1200, 3500, -300, 800) :
         pricing' = extract_pricing_info(all_scraped_data, drawn_ca, drawn_us)
    /\ \E drawn \in RandomUpcs :
         upc' = extract_upc_code(all_scraped_data, drawn)
    /\ pc' = "generate"
    /\ UNCHANGED <<search_vars, raised, prog, web, priced_page, price_lists, validate_check_digit, examined,
                   product_info, agent_vars, product_vars, meta_vars>>

\* app.py 472-495 and 563-766: the text is generated and parsed and the
\* ProductInfo returned to main, which shows it; an exception of
\* research_product is caught by main, which shows "Research failed".
AgentGenerate ==
    /\ prog = "agent" /\ pc = "generate"
    /\ \E answer \in AiResponses :
         LET parsed_content == parse_ai_response(generate_content(answer))
         IN  /\ product_info' = parsed_content.sections
             /\ pc' = IF parsed_content.raised THEN "errored" ELSE "done"
    /\ UNCHANGED <<search_vars, raised, prog, web, priced_page, price_lists, pricing, upc, validate_check_digit,
                   examined, agent_vars, product_vars, meta_vars>>

NextAgent ==
    \/ AgentSearch
    \/ AgentScrape
    \/ AgentCombine
    \/ AgentGenerate

SpecAgent == InitAgent /\ [][NextAgent]_vars

----------------------------------------------------------------------------
(* SpecProduct: one run of scrape_product_details (product.py). *)

\* A pool with a worker for every future.
MaxWorkersUnbounded == Len(task)

\* product.py 140: the size of the thread pool.
MaxWorkers == 5

\* The results pages the search of a run is answered with.
ProductPages ==
    {[err |-> TRUE, anchors |-> <<>>],
     [err |-> FALSE, anchors |-> <<G_INTERNAL, G_GOOGLE>>],
     [err |-> FALSE, anchors |-> <<G_SHOP, G_FACEBOOK, G_STORE>>],
     [err |-> FALSE, anchors |-> <<G_STORE, G_SHOP>>],
     [err |-> FALSE, anchors |-> <<G_SHOP, G_SHOP_REF, G_STORE>>],
     [err |-> FALSE,
      anchors |-> <<G_SHOP, G_STORE, G_SHOP_REF, G_STORE, G_SHOP, G_STORE, G_SHOP>>]}

Running == {i \in 1..Len(task) : task[i] = "running"}

InitProduct ==
    /\ prog = "product"
    /\ CurrencyIdle
    /\ ReportIdle
    /\ validate_check_digit = FALSE
    /\ upc_str = <<>>
    /\ web \in Webs
    /\ AgentIdle
    /\ ProductIdle
    /\ pc = "search"
    /\ fn = "none"
    /\ max_links \in 0..MaxLinks
    /\ gpage = NoPage
    /\ dpage = NoPage
    /\ glinks = <<>>
    /\ dlinks = <<>>
    /\ ddg_called = FALSE
    /\ links = <<>>
    /\ scanned = 0
    /\ raised = FALSE

\* product.py 119-141: the search, the initial combined_result, the launch
\* of the shared browser, and one future submitted per link, in the order
\* of links.  An exception of the search leaves scrape_product_details.
ProductSearch ==
    /\ prog = "product" /\ pc = "search"
    /\ \E page \in ProductPages :
         LET r == search_product_links(page, max_links)
         IN  /\ links' = r.links
             /\ raised' = r.raised
             /\ task' = [i \in 1..Len(r.links) |-> "queued"]
             /\ contexts' = [i \in 1..Len(r.links) |-> "none"]
             /\ browser' = IF r.raised THEN "none" ELSE "open"
             /\ combined_result' = InitialResult(r.links)
             /\ pc' = IF r.raised THEN "raised"
                      ELSE IF r.links = <<>> THEN "merge" ELSE "pool"
    /\ UNCHANGED <<fn, max_links, gpage, dpage, glinks, dlinks, ddg_called, scanned,
                   prog, web, priced_page, price_lists, report_vars, agent_vars, finished, results, results_from,
                   meta_vars>>

\* A free worker of the pool takes the oldest queued future: scrape_url
\* begins and opens a context of the shared browser (product.py 107).
TaskStart(i) ==
    /\ prog = "product" /\ pc = "pool"
    /\ task[i] = "queued"
    /\ \A j \in 1..(i - 1) : task[j] # "queued"
    /\ Cardinality(Running) < MaxWorkers
    /\ task' = [task EXCEPT ![i] = "running"]
    /\ contexts' = [contexts EXCEPT ![i] = "open"]
    /\ UNCHANGED <<pc, search_vars, raised, prog, web, priced_page, price_lists, report_vars, agent_vars, finished,
                   results, results_from, combined_result, browser, meta_vars>>

\* product.py 105-115: scrape_url returns in its worker thread.  context.close()
\* (112) is reached when page.goto and page.content did not raise.
TaskFinish(i) ==
    /\ prog = "product" /\ pc = "pool"
    /\ task[i] = "running"
    /\ task' = [task EXCEPT ![i] = "done"]
    /\ contexts' = IF Served(links[i]).fail \in {"none", "parse"}
                    THEN [contexts EXCEPT ![i] = "closed"]
                    ELSE contexts
    /\ finished' = Append(finished, i)
    /\ fetch_log' =
         Append(fetch_log, [url |-> links[i], out |-> scrape_url(links[i], Served(links[i]))])
    /\ UNCHANGED <<pc, search_vars, raised, prog, web, priced_page, price_lists, report_vars, query_i, urls, url_j,
                   handed, all_scraped_data, results, results_from, combined_result,
                   browser, meta_vars>>

\* A loop over the futures that ends when no completed future is waiting.
LoopEndsWhenDrained(waiting) == waiting = <<>>

\* product.py 142: as_completed is used up when every future has completed
\* and been yielded.
LoopEnds(waiting) == waiting = <<>> /\ \A j \in 1..Len(task) : task[j] = "done"

\* product.py 142-145: as_completed yields the next completed future; its
\* dict is kept unless it has the key error.  The loop ends with the last future.
Collect ==
    /\ prog = "product" /\ pc = "pool"
    /\ finished # <<>>
    /\ LET i == Head(finished)
           data == scrape_url(links[i], Served(links[i]))
           kept == "error" \notin data.keys
       IN  /\ results' = IF kept THEN Append(results, data) ELSE results
           /\ results_from' = IF kept THEN Append(results_from, i) ELSE results_from
    /\ finished' = Tail(finished)
    /\ pc' = IF LoopEnds(Tail(finished)) THEN "merge" ELSE "pool"
    /\ UNCHANGED <<search_vars, raised, prog, web, priced_page, price_lists, report_vars, agent_vars, task,
                   combined_result, browser, contexts, meta_vars>>

\* product.py 147-165: the browser is closed, and with it the contexts
\* still open; results is merged and returned.
MergeResults ==
    /\ prog = "product" /\ pc = "merge"
    /\ browser' = "closed"
    /\ contexts' = [i \in 1..Len(contexts) |->
                        IF contexts[i] = "open" THEN "closed" ELSE contexts[i]]
    /\ combined_result' = Merge(combined_result, results)
    /\ pc' = "done"
    /\ UNCHANGED <<search_vars, raised, prog, web, priced_page, price_lists, report_vars, agent_vars, task, finished,
                   results, results_from, meta_vars>>

NextProduct ==
    \/ ProductSearch
    \/ \E i \in 1..Len(task) : TaskStart(i)
    \/ \E i \in 1..Len(task) : TaskFinish(i)
    \/ Collect
    \/ MergeResults

SpecProduct == InitProduct /\ [][NextProduct]_vars

\* The scheduling of scrape_product_details: the pool runs a queued future
\* when a worker is free, page.goto returns or times out (product.py 109),
\* and the main thread goes on whenever it can.
FairSpecProduct == SpecProduct /\ WF_vars(NextProduct)

----------------------------------------------------------------------------
(* SpecPool: a run of scrape_product_details with more links than workers. *)

\* The max_links argument of the run.
PoolLinks == 6

\* The webs of these runs: the fetches of one of the sites succeed or time
\* out.
InitPool ==
    /\ prog = "product"
    /\ CurrencyIdle
    /\ web \in {w \in Webs : w[U_SHOP] = "A" /\ w[U_STORE] \in {"B", "timeout"}}
    /\ AgentIdle
    /\ ProductIdle
    /\ ReportIdle
    /\ validate_check_digit = FALSE
    /\ upc_str = <<>>
    /\ pc = "search"
    /\ fn = "none"
    /\ max_links = PoolLinks
    /\ gpage = NoPage
    /\ dpage = NoPage
    /\ glinks = <<>>
    /\ dlinks = <<>>
    /\ ddg_called = FALSE
    /\ links = <<>>
    /\ scanned = 0
    /\ raised = FALSE

SpecPool == InitPool /\ [][NextProduct]_vars

----------------------------------------------------------------------------
(* SpecCheckDigit: one call of check_digit_valid (utils/meta_utils.py). *)

\* How many of the last digits of the strings tried run over 0..9.
NFreeDigits == 3

\* The strings whose first digits are taken.
DigitBases == {UPC_V1, UPC_X2, UPC_V0}

\* The 12-digit strings check_digit_valid is tried on.
Candidates ==
    {SubSeq(base, 1, 12 - NFreeDigits) \o Str(tail) :
        base \in DigitBases, tail \in [1..NFreeDigits -> 0..9]}

\* Python's  int(d)  of a digit character.
int(d) == CHOOSE n \in 0..9 : DigitChars[n + 1] = d

\* Python's  sum(digits[start:stop:step]),  start and stop counted from 0.
RECURSIVE SliceSum(_, _, _, _)
SliceSum(digits, start, stop, step) ==
    IF start >= stop \/ start >= Len(digits) THEN 0
    ELSE digits[start + 1] + SliceSum(digits, start + step, stop, step)

\* A validator that takes 10 - checksum for the check digit also when the
\* checksum is 0.
check_digit_valid_without_wrap(s) ==
    LET digits == [i \in 1..Len(s) |-> int(s[i])]
        checksum == (SliceSum(digits, 0, 11, 2) * 3 + SliceSum(digits, 1, 11, 2)) % 10
    IN  10 - checksum = digits[12]

\* meta_utils.py 33-40.
check_digit_valid(s) ==
    LET digits == [i \in 1..Len(s) |-> int(s[i])]
        odd == SliceSum(digits, 0, 11, 2)
        even == SliceSum(digits, 1, 11, 2)
        checksum == (odd * 3 + even) % 10
        check == IF checksum # 0 THEN 10 - checksum ELSE 0
    IN  check = digits[12]

InitCheckDigit ==
    /\ prog = "check_digit"
    /\ CurrencyIdle
    /\ web = NoWeb
    /\ AgentIdle
    /\ ProductIdle
    /\ ReportIdle
    /\ validate_check_digit = TRUE
    /\ upc_str \in Candidates
    /\ pc = "start"
    /\ fn = "none"
    /\ max_links = 0
    /\ gpage = NoPage
    /\ dpage = NoPage
    /\ glinks = <<>>
    /\ dlinks = <<>>
    /\ ddg_called = FALSE
    /\ links = <<>>
    /\ scanned = 0
    /\ raised = FALSE

\* meta_utils.py 33-40: the call returns.
CheckDigit ==
    /\ prog = "check_digit" /\ pc = "start"
    /\ digit_valid' = check_digit_valid(upc_str)
    /\ pc' = "done"
    /\ UNCHANGED <<search_vars, raised, prog, web, priced_page, price_lists, report_vars, agent_vars, product_vars,
                   upc_str, price_usd, price_cad>>

NextCheckDigit == CheckDigit

SpecCheckDigit == InitCheckDigit /\ [][NextCheckDigit]_vars

----------------------------------------------------------------------------
(* SpecUpc: one run of find_upc_by_product_name (utils/meta_utils.py). *)

\* meta_utils.py 59.
UPC_NOT_FOUND == <<"UPC Not Found">>

\* The results pages the search of a run of a meta_utils helper is answered
\* with.
MetaPages ==
    {[err |-> TRUE, anchors |-> <<>>],
     [err |-> FALSE, anchors |-> <<G_INTERNAL, G_GOOGLE>>],
     [err |-> FALSE, anchors |-> <<G_SHOP, G_STORE>>],
     [err |-> FALSE, anchors |-> <<G_STORE, G_INTERNAL, G_SHOP>>]}

\* requests' Response.ok: the status is below 400.
resp_ok(answer) == answer.status < 400

\* meta_utils.py 44-51: the matches of upc_regex in the page of one link;
\* a request that fails and a response that is not ok give none.
upc_matches(answer) ==
    IF answer.fail = "none" /\ resp_ok(answer) THEN AllRuns(answer.doc.upcs) ELSE <<>>

\* A test that asks for the check digit whatever the flag says.
AcceptsOnlyValid(candidate, strict) == check_digit_valid(candidate)

\* meta_utils.py 53-57: whether the loop returns this candidate.
Accepts(candidate, strict) ==
    IF strict THEN check_digit_valid(candidate) ELSE TRUE

\* meta_utils.py 52-57: the loop over the matches of one page, from match i
\* on; looked lists the candidates it tested and what it did with each.
RECURSIVE ScanCandidates(_, _, _, _)
ScanCandidates(matches, i, strict, looked) ==
    IF i > Len(matches) THEN [found |-> FALSE, upc |-> <<>>, looked |-> looked]
    ELSE IF Accepts(matches[i], strict)
    THEN [found |-> TRUE, upc |-> matches[i],
          looked |-> Append(looked, [candidate |-> matches[i], accepted |-> TRUE])]
    ELSE ScanCandidates(matches, i + 1, strict,
                        Append(looked, [candidate |-> matches[i], accepted |-> FALSE]))

InitUpc ==
    /\ prog = "find_upc"
    /\ CurrencyIdle
    /\ web \in Webs
    /\ AgentIdle
    /\ ProductIdle
    /\ ReportIdle
    /\ validate_check_digit \in BOOLEAN
    /\ upc_str = <<>>
    /\ pc = "search"
    /\ fn = "none"
    /\ max_links \in 0..MaxLinks
    /\ gpage = NoPage
    /\ dpage = NoPage
    /\ glinks = <<>>
    /\ dlinks = <<>>
    /\ ddg_called = FALSE
    /\ links = <<>>
    /\ scanned = 0
    /\ raised = FALSE

\* meta_utils.py 14-29: the search and the loop over its anchors.  An
\* exception of the search request leaves find_upc_by_product_name.
UpcSearch ==
    /\ prog = "find_upc" /\ pc = "search"
    /\ \E page \in MetaPages :
         LET r == find_upc_links(page, max_links)
         IN  /\ links' = r.links
             /\ raised' = r.raised
             /\ pc' = IF r.raised THEN "raised" ELSE "fetch"
    /\ UNCHANGED <<fn, max_links, gpage, dpage, glinks, dlinks, ddg_called, scanned,
                   prog, web, priced_page, price_lists, report_vars, agent_vars, product_vars, meta_vars>>

\* meta_utils.py 42-57: one pass of the loop over links.
UpcFetch ==
    /\ prog = "find_upc" /\ pc = "fetch" /\ url_j < Len(links)
    /\ LET url == links[url_j + 1]
           matches == upc_matches(Served(url))
           r == ScanCandidates(matches, 1, validate_check_digit, <<>>)
       IN  /\ fetch_log' = Append(fetch_log, [url |-> url, out |-> matches])
           /\ examined' = examined \o r.looked
           /\ upc' = r.upc
           /\ pc' = IF r.found THEN "done" ELSE "fetch"
    /\ url_j' = url_j + 1
    /\ UNCHANGED <<search_vars, raised, prog, web, priced_page, price_lists, pricing, validate_check_digit,
                   product_info, query_i, urls, handed, all_scraped_data, product_vars,
                   meta_vars>>

\* meta_utils.py 59: no page gave a candidate the loop returned.
UpcNotFound ==
    /\ prog = "find_upc" /\ pc = "fetch" /\ url_j = Len(links)
    /\ upc' = UPC_NOT_FOUND
    /\ pc' = "done"
    /\ UNCHANGED <<search_vars, raised, prog, web, priced_page, price_lists, pricing, validate_check_digit, examined,
                   product_info, agent_vars, product_vars, meta_vars>>

NextUpc ==
    \/ UpcSearch
    \/ UpcFetch
    \/ UpcNotFound

SpecUpc == InitUpc /\ [][NextUpc]_vars

----------------------------------------------------------------------------
(* SpecPriceRange: one run of get_price_range (utils/meta_utils.py). *)

\* meta_utils.py 62-72: \$\s*n finds the number after every $ (also the $ of
\* US$, C$ and CA$); the CAD list is the matches of CA\$ and then of CAD.
extract_prices_from_html(text) ==
    [usd |-> NumbersAt(text, {"$", "US$", "C$", "CA$"}),
     cad |-> NumbersAt(text, {"CA$"}) \o NumbersAt(text, {"CAD"})]

\* meta_utils.py 106-107.
summarize(prices) ==
    IF prices # <<>> THEN <<Min(prices), Max(prices)>> ELSE <<None, None>>

InitPriceRange ==
    /\ prog = "get_price_range"
    /\ CurrencyIdle
    /\ web \in Webs
    /\ AgentIdle
    /\ ProductIdle
    /\ ReportIdle
    /\ validate_check_digit = FALSE
    /\ upc_str = <<>>
    /\ pc = "search"
    /\ fn = "none"
    /\ max_links \in 0..MaxLinks
    /\ gpage = NoPage
    /\ dpage = NoPage
    /\ glinks = <<>>
    /\ dlinks = <<>>
    /\ ddg_called = FALSE
    /\ links = <<>>
    /\ scanned = 0
    /\ raised = FALSE

\* meta_utils.py 75-90: the search and the loop over its anchors.  An
\* exception of the search request leaves get_price_range.
RangeSearch ==
    /\ prog = "get_price_range" /\ pc = "search"
    /\ \E page \in MetaPages :
         LET r == price_range_links(page, max_links)
         IN  /\ links' = r.links
             /\ raised' = r.raised
             /\ pc' = IF r.raised THEN "raised" ELSE "fetch"
    /\ UNCHANGED <<fn, max_links, gpage, dpage, glinks, dlinks, ddg_called, scanned,
                   prog, web, priced_page, price_lists, report_vars, agent_vars, product_vars, meta_vars>>

\* meta_utils.py 95-104: one pass of the loop over links; a request that
\* fails and a response that is not ok add nothing.
RangeFetch ==
    /\ prog = "get_price_range" /\ pc = "fetch" /\ url_j < Len(links)
    /\ LET url == links[url_j + 1]
           answer == Served(url)
           got == IF answer.fail = "none" /\ resp_ok(answer)
                  THEN extract_prices_from_html(answer.doc.prices)
                  ELSE [usd |-> <<>>, cad |-> <<>>]
       IN  /\ fetch_log' = Append(fetch_log, [url |-> url, out |-> got])
           /\ price_usd' = price_usd \o got.usd
           /\ price_cad' = price_cad \o got.cad
    /\ url_j' = url_j + 1
    /\ UNCHANGED <<pc, search_vars, raised, prog, web, priced_page, price_lists, report_vars, query_i, urls, handed,
                   all_scraped_data, product_vars, upc_str, digit_valid>>

\* meta_utils.py 106-117: the two lists are summarized and returned.
RangeSummarize ==
    /\ prog = "get_price_range" /\ pc = "fetch" /\ url_j = Len(links)
    /\ pricing' = [us_low |-> summarize(price_usd)[1], us_high |-> summarize(price_usd)[2],
                   ca_low |-> summarize(price_cad)[1], ca_high |-> summarize(price_cad)[2]]
    /\ pc' = "done"
    /\ UNCHANGED <<search_vars, raised, prog, web, priced_page, price_lists, upc, validate_check_digit, examined,
                   product_info, agent_vars, product_vars, meta_vars>>

NextPriceRange ==
    \/ RangeSearch
    \/ RangeFetch
    \/ RangeSummarize

SpecPriceRange == InitPriceRange /\ [][NextPriceRange]_vars

----------------------------------------------------------------------------
(* SpecPrices: a run of either of the two programs that report a min and a *)
(* max price per currency without generating text.                         *)

InitPrices == InitProduct \/ InitPriceRange

NextPrices == NextProduct \/ NextPriceRange

SpecPrices == InitPrices /\ [][NextPrices]_vars

----------------------------------------------------------------------------
(* SpecCurrency: one application of a price classifier of the programs to *)
(* the text of one page.                                                   *)

\* The page texts: up to MaxTokens price tokens, each with one of the
\* currency markers the patterns of the programs know and with a number of
\* its own, inside the band of realistic prices.
PricedTexts ==
    {[i \in 1..Len(marks) |-> Tok(marks[i], 1000 * i)] :
        marks \in SeqsUpTo({"$", "USD", "US$", "CAD", "C$", "CA$"}, MaxTokens) \ {<<>>}}

\* The pages: at a .com site, at a .ca site, or at a .com site whose host
\* name holds the characters ".ca"; canada and usa as in a document.
InitCurrency ==
    /\ prog = "currency"
    /\ web = NoWeb
    /\ priced_page \in [url : {U_SHOP, U_STORE, <<"https://", "camping.com", "/p">>},
                         text : PricedTexts, canada : BOOLEAN, usa : BOOLEAN]
    /\ price_lists = [by |-> "none", usd |-> <<>>, cad |-> <<>>]
    /\ AgentIdle
    /\ ProductIdle
    /\ ReportIdle
    /\ validate_check_digit = FALSE
    /\ upc_str = <<>>
    /\ pc = "input"
    /\ fn = "none"
    /\ max_links = 0
    /\ gpage = NoPage
    /\ dpage = NoPage
    /\ glinks = <<>>
    /\ dlinks = <<>>
    /\ ddg_called = FALSE
    /\ links = <<>>
    /\ scanned = 0
    /\ raised = FALSE

\* app.py 182-194 and 270-290: the price strings scrape_website finds on the
\* page, and the two lists extract_pricing_info sorts them into (before its
\* filter).
ClassifyApp ==
    /\ prog = "currency" /\ pc = "input"
    /\ LET doc == [DOC_NONE EXCEPT !.name = "priced", !.prices = priced_page.text,
                                   !.canada = priced_page.canada,
                                   !.usa = priced_page.usa]
           scraped_data == <<Scraped(priced_page.url, doc)>>
       IN  price_lists' = [by |-> "app",
                           usd |-> PricesOf(scraped_data, FALSE),
                           cad |-> PricesOf(scraped_data, TRUE)]
    /\ pc' = "done"
    /\ UNCHANGED <<search_vars, raised, prog, web, priced_page, report_vars, agent_vars,
                   product_vars, meta_vars>>

\* product.py 62-72.
ClassifyProduct ==
    /\ prog = "currency" /\ pc = "input"
    /\ price_lists' = [by |-> "product",
                       usd |-> extract_prices(priced_page.text).usd,
                       cad |-> extract_prices(priced_page.text).cad]
    /\ pc' = "done"
    /\ UNCHANGED <<search_vars, raised, prog, web, priced_page, report_vars, agent_vars,
                   product_vars, meta_vars>>

\* meta_utils.py 62-72.
ClassifyMeta ==
    /\ prog = "currency" /\ pc = "input"
    /\ price_lists' = [by |-> "meta_utils",
                       usd |-> extract_prices_from_html(priced_page.text).usd,
                       cad |-> extract_prices_from_html(priced_page.text).cad]
    /\ pc' = "done"
    /\ UNCHANGED <<search_vars, raised, prog, web, priced_page, report_vars, agent_vars,
                   product_vars, meta_vars>>

NextCurrency ==
    \/ ClassifyApp
    \/ ClassifyProduct
    \/ ClassifyMeta

SpecCurrency == InitCurrency /\ [][NextCurrency]_vars

----------------------------------------------------------------------------
(* Spec: a run of any of the programs. *)

Init ==
    InitSearch \/ InitAgent \/ InitProduct \/ InitCheckDigit \/ InitUpc \/ InitPriceRange

Next ==
    NextSearch \/ NextAgent \/ NextProduct \/ NextCheckDigit \/ NextUpc \/ NextPriceRange

Spec == Init /\ [][Next]_vars

----------------------------------------------------------------------------
(* Properties of link discovery, checked under SpecSearch. *)

\* The page whose anchors the returned list was built from.
LastPage == IF ddg_called THEN dpage ELSE gpage

\* The test and link extraction the finished call applied to LastPage.
LastWhich ==
    CASE fn = "google_search" -> IF ddg_called THEN "app_duck" ELSE "app_google"
      [] fn = "new_app" -> "new_app"
      [] fn = "product" -> "product"
      [] fn = "find_upc" -> "find_upc"
      [] fn = "price_range" -> "price_range"
      [] OTHER -> "app_google"

\* The links of the first n anchors that pass the test, in page order.
RECURSIVE KeptLinks(_, _, _)
KeptLinks(which, anchors, n) ==
    IF n = 0 THEN <<>>
    ELSE LET rest == KeptLinks(which, anchors, n - 1)
         IN  IF Keeps(which, anchors[n]) THEN Append(rest, LinkOf(which, anchors[n]))
             ELSE rest

\* The number of anchors a scan has looked at when it first holds max links;
\* the whole page when it never does.
StopPoint(which, anchors, max) ==
    LET reached == {n \in 0..Len(anchors) : Len(KeptLinks(which, anchors, n)) >= max}
    IN  IF reached = {} THEN Len(anchors)
        ELSE CHOOSE n \in reached : \A m \in reached : n <= m

\* The host of a link: the token after the scheme.
Host(link) == IF Len(link) >= 2 /\ link[1] = "https://" THEN link[2] ELSE ""

\* The denylist of a backend: the engine itself, video and social platforms.
Denylist(which) ==
    {"youtube.com", "facebook.com", "instagram.com"}
        \cup (IF which = "app_duck" THEN {"duckduckgo.com"} ELSE {"google.com"})

\* C1: google_search consults DuckDuckGo if and only if Google returned no
\* link or failed; it then returns exactly DuckDuckGo's links; when both fail
\* it returns the empty list, and no exception leaves it.
C1_SearchFallback ==
    (fn = "google_search" /\ pc = "done") =>
        /\ ddg_called <=> (gpage.err \/ glinks = <<>>)
        /\ ~ ddg_called => links = glinks
        /\ ddg_called => links = dlinks
        /\ (ddg_called /\ (dpage.err \/ dlinks = <<>>)) => links = <<>>
        /\ ~ raised

\* C1 witness: Google failed, DuckDuckGo was consulted and its links returned.
C1_Witness ==
    /\ fn = "google_search" /\ pc = "done"
    /\ gpage.err /\ ddg_called
    /\ dlinks = <<D_SHOP, D_STORE>> /\ links = dlinks

\* C2: a link-discovery call returns at most max_links links, for every
\* max_links >= 0, stops scanning the anchors once it holds max_links links,
\* and returns every matching link of a page that holds fewer.
C2_AtMostMaxLinks ==
    (pc = "done" /\ ~ raised) =>
        LET all == KeptLinks(LastWhich, LastPage.anchors, Len(LastPage.anchors))
        IN  /\ Len(links) <= max_links
            /\ scanned = StopPoint(LastWhich, LastPage.anchors, max_links)
            /\ Len(all) < max_links => links = all

\* C3: no returned link has a denylisted host or starts with '#', whichever
\* link-discovery function returned it.
C3_NoDeniedLink ==
    pc = "done" =>
        \A i \in 1..Len(links) :
            /\ Host(links[i]) \notin Denylist(LastWhich)
            /\ ~ StartsWith(links[i], "#")

----------------------------------------------------------------------------
(* Properties of the fetches and of the merge, checked under Spec (a run of *)
(* any program) or under SpecProduct.                                       *)

\* The validation heuristic of the design (section 4.3): at least this many
\* keyword matches and a body of at least this many characters.
MinKeywordMatches == 2
MinBodyLength == 100

PassesValidation(doc) == doc.kw >= MinKeywordMatches /\ doc.len >= MinBodyLength

\* The plausibility band of prices, in cents (5 to 200).

Admissible(cents) == BandLow <= cents /\ cents <= BandHigh

\* A URL without its query string: scheme, host and path.
IsQueryToken(tok) == tok \in {"?ref=1", "?q=x"}

RECURSIVE Normalize(_)
Normalize(url) ==
    IF url = <<>> \/ IsQueryToken(Head(url)) THEN <<>>
    ELSE <<Head(url)>> \o Normalize(Tail(url))

\* No two entries of a list of URLs have the same normalized URL.
NormalizedDistinct(us) ==
    \A i \in 1..Len(us) : \A j \in 1..Len(us) :
        i < j => Normalize(us[i]) # Normalize(us[j])

Is2xx(answer) == answer.status >= 200 /\ answer.status <= 299

\* The pages a finished or running scrape has put into its merge set, as
\* the URL each came from.
MergeSetUrls ==
    IF prog = "agent" THEN [k \in 1..Len(all_scraped_data) |-> all_scraped_data[k].url]
    ELSE [k \in 1..Len(results_from) |-> links[results_from[k]]]

\* C4: within a run the URLs handed to the page fetcher are deduplicated by
\* normalized URL: a URL found twice is fetched, and merged, at most once.
C4_DedupByNormalizedUrl ==
    prog \in {"agent", "product"} =>
        /\ NormalizedDistinct([k \in 1..Len(fetch_log) |-> fetch_log[k].url])
        /\ NormalizedDistinct(MergeSetUrls)

\* C5: a page fetch never raises: each failure mode gives a result with the
\* key error; and a failed URL does not keep the later URLs of the run from
\* being fetched.
C5_FetchNeverRaises ==
    prog \in {"agent", "product"} =>
        /\ \A k \in 1..Len(fetch_log) :
              LET e == fetch_log[k]
              IN  /\ ~ e.out.raised
                  /\ Served(e.url).fail # "none" => "error" \in e.out.keys
        /\ prog = "agent" => ~ raised
        /\ (prog = "agent" /\ pc \in {"combine", "done"}) =>
              [k \in 1..Len(fetch_log) |-> fetch_log[k].url] = handed
        /\ (prog = "product" /\ pc \in {"merge", "done"}) =>
              /\ Len(fetch_log) = Len(links)
              /\ \A i \in 1..Len(links) :
                    \E k \in 1..Len(fetch_log) : fetch_log[k].url = links[i]

\* C5 witness: a run whose first fetch timed out and whose second fetch
\* succeeded and was merged.
C5_Witness ==
    /\ prog = "agent" /\ pc = "done"
    /\ Len(fetch_log) >= 2
    /\ Served(fetch_log[1].url).fail = "timeout"
    /\ "error" \in fetch_log[1].out.keys
    /\ "content" \in fetch_log[2].out.keys
    /\ Len(all_scraped_data) >= 1

\* C6: a response whose status is not 2xx is a failed fetch: it gives a
\* result with the key error, and its body never enters the merge set.
C6_Non2xxIsFailure ==
    prog \in {"agent", "product"} =>
        /\ \A k \in 1..Len(fetch_log) :
              LET e == fetch_log[k]
              IN  (Served(e.url).fail = "none" /\ ~ Is2xx(Served(e.url)))
                      => "error" \in e.out.keys
        /\ \A k \in 1..Len(MergeSetUrls) :
              Served(MergeSetUrls[k]).fail = "none" => Is2xx(Served(MergeSetUrls[k]))

\* C7: a fetched page that fails the validation heuristic never enters the
\* merge set.
C7_InvalidPageNotMerged ==
    prog \in {"agent", "product"} =>
        \A k \in 1..Len(MergeSetUrls) : PassesValidation(Served(MergeSetUrls[k]).doc)

\* The partial records of the links in the order the fetches were submitted,
\* failed fetches left out.
RECURSIVE PartialsFrom(_)
PartialsFrom(i) ==
    IF i > Len(links) THEN <<>>
    ELSE LET data == scrape_url(links[i], Served(links[i]))
         IN  (IF "error" \in data.keys THEN <<>> ELSE <<data>>) \o PartialsFrom(i + 1)

SubmissionOrderPartials == PartialsFrom(1)

\* The value of field key in the first partial, in submission order, that
\* has one; "" when none has.
FirstNonEmpty(key) ==
    LET ps == SubmissionOrderPartials
        has == {i \in 1..Len(ps) : ps[i][key] # ""}
    IN  IF has = {} THEN ""
        ELSE ps[CHOOSE i \in has : \A j \in has : i <= j][key]

\* C8: each text field of the returned record is the value of the first
\* partial record, in the order of the source links, with a non-empty value.
C8_FirstNonEmptyInLinkOrder ==
    (prog = "product" /\ pc = "done") =>
        \A key \in TextKeys : combined_result[key] = FirstNonEmpty(key)

\* C9: the returned record depends on the links and the page contents only,
\* not on the order in which the fetches complete: it is the merge of the
\* partial records in submission order.
C9_SameUnderEveryCompletionOrder ==
    (prog = "product" /\ pc = "done") =>
        combined_result = Merge(InitialResult(links), SubmissionOrderPartials)

\* The admissible prices of a list.
RECURSIVE AdmissibleOf(_)
AdmissibleOf(prices) ==
    IF prices = <<>> THEN <<>>
    ELSE (IF Admissible(Head(prices)) THEN <<Head(prices)>> ELSE <<>>)
            \o AdmissibleOf(Tail(prices))

\* The admissible prices of all merged partial records, per currency.
RECURSIVE AdmissibleUnion(_, _)
AdmissibleUnion(field, k) ==
    IF k > Len(results) THEN <<>>
    ELSE AdmissibleOf(results[k][field]) \o AdmissibleUnion(field, k + 1)

MinOrNone(prices) == IF prices = <<>> THEN None ELSE Min(prices)
MaxOrNone(prices) == IF prices = <<>> THEN None ELSE Max(prices)

\* C10: per currency, the reported minimum and maximum are the minimum and
\* maximum of the admissible prices of all merged partial records, and null
\* when there is none.
C10_MinMaxOfAdmissibleUnion ==
    (prog = "product" /\ pc = "done") =>
        /\ combined_result.min_price_usd = MinOrNone(AdmissibleUnion("usd_prices", 1))
        /\ combined_result.max_price_usd = MaxOrNone(AdmissibleUnion("usd_prices", 1))
        /\ combined_result.min_price_cad = MinOrNone(AdmissibleUnion("cad_prices", 1))
        /\ combined_result.max_price_cad = MaxOrNone(AdmissibleUnion("cad_prices", 1))

----------------------------------------------------------------------------
(* Properties of the reported prices and source links. *)

\* The numbers of the price tokens of the pages this run fetched.
PagePrices ==
    UNION {{Served(fetch_log[k].url).doc.prices[i].cents :
                i \in 1..Len(Served(fetch_log[k].url).doc.prices)} :
           k \in {j \in 1..Len(fetch_log) : Served(fetch_log[j].url).fail = "none"}}

\* The price values of the result of the run, once it has one.
ReportedPrices ==
    IF prog = "agent" /\ pc \in {"generate", "done", "errored"}
    THEN {pricing.ca_low, pricing.ca_high, pricing.us_low, pricing.us_high}
    ELSE IF prog = "product" /\ pc = "done"
    THEN {combined_result.min_price_usd, combined_result.max_price_usd,
          combined_result.min_price_cad, combined_result.max_price_cad}
    ELSE IF prog = "get_price_range" /\ pc = "done"
    THEN {pricing.ca_low, pricing.ca_high, pricing.us_low, pricing.us_high}
    ELSE {}

\* The (min, max) pairs of the result of the run, once it has one.
ReportedRanges ==
    IF prog = "agent" /\ pc \in {"generate", "done", "errored"}
    THEN {<<pricing.ca_low, pricing.ca_high>>, <<pricing.us_low, pricing.us_high>>}
    ELSE IF prog = "product" /\ pc = "done"
    THEN {<<combined_result.min_price_usd, combined_result.max_price_usd>>,
          <<combined_result.min_price_cad, combined_result.max_price_cad>>}
    ELSE IF prog = "get_price_range" /\ pc = "done"
    THEN {<<pricing.ca_low, pricing.ca_high>>, <<pricing.us_low, pricing.us_high>>}
    ELSE {}

\* C11: every price value of a result was parsed from a page the run
\* fetched, or is null: no price is synthesized, and a currency without an
\* observed price has null min and null max.
C11_NoPriceSynthesized ==
    \A p \in ReportedPrices : p = None \/ p \in PagePrices

\* C12: in every result, a currency whose min and max are not null has
\* min <= max and both within the band of 5 to 200.
C12_MinMaxWithinBand ==
    \A r \in ReportedRanges :
        (r[1] # None \/ r[2] # None) =>
            /\ r[1] <= r[2]
            /\ BandLow <= r[1] /\ r[1] <= BandHigh
            /\ BandLow <= r[2] /\ r[2] <= BandHigh

\* The permutations of 1..n, as orders of n partial records.
OrdersOf(n) ==
    {f \in [1..n -> 1..n] : \A i, j \in 1..n : f[i] = f[j] => i = j}

\* The four price fields of a merged record.
PriceFields(r) == <<r.min_price_usd, r.max_price_usd, r.min_price_cad, r.max_price_cad>>

\* The prices of the pages get_price_range fetched, concatenated in order f.
RECURSIVE PricesInOrder(_, _, _)
PricesInOrder(f, n, currency) ==
    IF n = 0 THEN <<>>
    ELSE PricesInOrder(f, n - 1, currency) \o fetch_log[f[n]].out[currency]

\* C13: the min and max prices of the merged record are the same for every
\* order of the partial records that are merged.
C13_MinMaxOrderInvariant ==
    /\ (prog = "product" /\ pc = "done") =>
          \A f \in OrdersOf(Len(results)) :
              PriceFields(Merge(InitialResult(links), [i \in 1..Len(results) |-> results[f[i]]]))
                  = PriceFields(combined_result)
    /\ (prog = "get_price_range" /\ pc = "done") =>
          \A f \in OrdersOf(Len(fetch_log)) :
              /\ summarize(PricesInOrder(f, Len(fetch_log), "usd"))
                    = <<pricing.us_low, pricing.us_high>>
              /\ summarize(PricesInOrder(f, Len(fetch_log), "cad"))
                    = <<pricing.ca_low, pricing.ca_high>>

\* C13 witness: two pages with different USD prices and different titles
\* were merged; in the other order the title would differ, the prices not.
C13_Witness ==
    /\ prog = "product" /\ pc = "done"
    /\ Len(results) = 2
    /\ results[1].usd_prices # <<>> /\ results[2].usd_prices # <<>>
    /\ results[1].usd_prices # results[2].usd_prices
    /\ combined_result.min_price_usd < combined_result.max_price_usd
    /\ Merge(InitialResult(links), <<results[2], results[1]>>).meta_title
          # combined_result.meta_title

\* C14: source_links is the list of links submitted for fetching, in the
\* order of their discovery, from the submission to the end of the run,
\* whatever became of each fetch; every fetch of the run is of one of them.
C14_SourceLinksAreSubmitted ==
    (prog = "product" /\ pc \in {"pool", "merge", "done"}) =>
        /\ combined_result.source_links = links
        /\ Len(task) = Len(links)
        /\ \A k \in 1..Len(fetch_log) :
              \E i \in 1..Len(links) : links[i] = fetch_log[k].url /\ task[i] = "done"

\* C14 witness: a finished run of two links where the first link's fetch
\* failed and the second link's page was merged.
C14_Witness ==
    /\ prog = "product" /\ pc = "done"
    /\ Len(links) = 2
    /\ Served(links[1]).fail # "none"
    /\ results_from = <<2>>
    /\ combined_result.source_links = links

----------------------------------------------------------------------------
(* Properties of the UPC helpers. *)

\* The digit at position k (from 1) of a digit string.
DigitAt(s, k) == CHOOSE n \in 0..9 : DigitChars[n + 1] = s[k]

\* The UPC-A check digit of the first 11 digits of s.
UpcACheckDigit(s) ==
    LET c == (3 * (DigitAt(s, 1) + DigitAt(s, 3) + DigitAt(s, 5) + DigitAt(s, 7)
                    + DigitAt(s, 9) + DigitAt(s, 11))
              + (DigitAt(s, 2) + DigitAt(s, 4) + DigitAt(s, 6) + DigitAt(s, 8)
                    + DigitAt(s, 10))) % 10
    IN  IF c = 0 THEN 0 ELSE 10 - c

\* The reference rule: the weighted sum of all twelve digits is divisible
\* by 10.
WeightedSumDivisible(s) ==
    (3 * (DigitAt(s, 1) + DigitAt(s, 3) + DigitAt(s, 5) + DigitAt(s, 7)
            + DigitAt(s, 9) + DigitAt(s, 11))
        + DigitAt(s, 2) + DigitAt(s, 4) + DigitAt(s, 6) + DigitAt(s, 8)
        + DigitAt(s, 10) + DigitAt(s, 12)) % 10 = 0

\* C15: check_digit_valid accepts a 12-digit string exactly when its 12th
\* digit is the UPC-A check digit of the first 11, which is exactly when the
\* weighted sum of the twelve digits is divisible by 10.
C15_CheckDigitRule ==
    (prog = "check_digit" /\ pc = "done") =>
        /\ digit_valid = (DigitAt(upc_str, 12) = UpcACheckDigit(upc_str))
        /\ digit_valid = WeightedSumDivisible(upc_str)

\* C15 witness: a string whose check digit is the wrapped 0 was accepted.
C15_Witness ==
    /\ prog = "check_digit" /\ pc = "done"
    /\ digit_valid
    /\ DigitAt(upc_str, 12) = 0
    /\ DigitAt(upc_str, 10) # DigitAt(upc_str, 11)

\* The 12-digit runs of the page a fetch of url brought, in text order: a
\* failed fetch brings no page.
RunsOfPage(url) ==
    IF Served(url).fail = "none" /\ Is2xx(Served(url))
    THEN [i \in 1..Len(Served(url).doc.upcs) |-> Served(url).doc.upcs[i].digits]
    ELSE <<>>

\* The candidates of the first n fetches of the run, in fetch order and,
\* within a page, in text order.
RECURSIVE CandidatesInFetchOrder(_)
CandidatesInFetchOrder(n) ==
    IF n = 0 THEN <<>>
    ELSE CandidatesInFetchOrder(n - 1) \o RunsOfPage(fetch_log[n].url)

\* Whether the run has a UPC result, and the strictness it ran with:
\* research_product has the syntactic test only (app.py 321).
HasUpcResult ==
    \/ prog = "find_upc" /\ pc = "done"
    \/ prog = "agent" /\ pc \in {"generate", "done", "errored"}

Strict == prog = "find_upc" /\ validate_check_digit

\* Whether a candidate is acceptable under the strictness of the run.
Acceptable(candidate) == WeightedSumDivisible(candidate) \/ ~ Strict

\* C16: a candidate that passes the checksum rule is accepted in both modes;
\* one that fails it is accepted in syntactic mode and skipped in strict
\* mode, where the search goes on with the later candidates and pages; the
\* mode is the flag the caller passed.
C16_StrictnessModes ==
    prog = "find_upc" =>
        LET cs == CandidatesInFetchOrder(Len(fetch_log))
        IN  /\ \A k \in 1..Len(examined) :
                  /\ examined[k].accepted =
                        (WeightedSumDivisible(examined[k].candidate) \/ ~ validate_check_digit)
                  /\ k < Len(examined) => ~ examined[k].accepted
            /\ Len(examined) <= Len(cs)
            /\ \A k \in 1..Len(examined) : examined[k].candidate = cs[k]
            /\ (pc = "fetch" \/ upc = UPC_NOT_FOUND) => Len(examined) = Len(cs)
            /\ upc = UPC_NOT_FOUND => Len(fetch_log) = Len(links)
            /\ (pc = "done" /\ upc # UPC_NOT_FOUND) =>
                  /\ examined # <<>>
                  /\ examined[Len(examined)].accepted
                  /\ examined[Len(examined)].candidate = upc

\* C16 witness: in strict mode a candidate that fails the checksum was
\* skipped on the first page and a valid one accepted on a later page.
C16_Witness ==
    /\ prog = "find_upc" /\ pc = "done"
    /\ validate_check_digit
    /\ Len(fetch_log) = 2
    /\ RunsOfPage(fetch_log[1].url) # <<>>
    /\ Len(examined) >= 2
    /\ ~ examined[1].accepted
    /\ upc = examined[Len(examined)].candidate
    /\ WeightedSumDivisible(upc)

\* The 12-digit runs of the bodies of every response of the run.
RunsOnFetchedPages ==
    UNION {{Served(fetch_log[k].url).doc.upcs[i].digits :
                i \in 1..Len(Served(fetch_log[k].url).doc.upcs)} :
           k \in {j \in 1..Len(fetch_log) : Served(fetch_log[j].url).fail = "none"}}

\* C17: the UPC result is a 12-digit run of a fetched page or the sentinel
\* "UPC Not Found"; it is the sentinel when no fetched page has a run.
C17_UpcFromPageOrSentinel ==
    HasUpcResult =>
        /\ upc = UPC_NOT_FOUND \/ upc \in RunsOnFetchedPages
        /\ RunsOnFetchedPages = {} => upc = UPC_NOT_FOUND

\* The index of the first acceptable candidate of cs from i on, or 0.
RECURSIVE FirstAcceptable(_, _)
FirstAcceptable(cs, i) ==
    IF i > Len(cs) THEN 0
    ELSE IF Acceptable(cs[i]) THEN i
    ELSE FirstAcceptable(cs, i + 1)

\* C18: the UPC chosen is the first acceptable candidate in fetch order and,
\* within a page, in text order.
C18_FirstAcceptableInFetchOrder ==
    HasUpcResult =>
        LET cs == CandidatesInFetchOrder(Len(fetch_log))
            first == FirstAcceptable(cs, 1)
        IN  first # 0 => upc = cs[first]

----------------------------------------------------------------------------
(* Properties of the end of a research run. *)

\* C19: when every search of the run returned no link, the run completes
\* without an exception and returns a record with empty text fields, null
\* prices and no source link.
C19_EmptySearchGivesEmptyRecord ==
    /\ (prog = "agent" /\ pc \in {"done", "errored"} /\ handed = <<>>) =>
          /\ pc = "done"
          /\ product_info = NoProductInfo
          /\ pricing = NoPricing
    /\ (prog = "product" /\ pc = "done" /\ links = <<>>) =>
          combined_result = InitialResult(<<>>)

\* C20: a run ends in the user-visible failure exactly when no URL was
\* fetched in it.
C20_ErroredIffNothingFetched ==
    (prog = "agent" /\ pc \in {"done", "errored"}) =>
        (pc = "errored" <=> fetch_log = <<>>)

----------------------------------------------------------------------------
(* Properties of the course of a research run. *)

\* The URLs of the page fetches of the run so far, in order.
FetchedUrls == [k \in 1..Len(fetch_log) |-> fetch_log[k].url]

\* The fetches of the run so far that gave a page, in order.
RECURSIVE PagesFetched(_)
PagesFetched(n) ==
    IF n = 0 THEN <<>>
    ELSE PagesFetched(n - 1)
            \o (IF "content" \in fetch_log[n].out.keys THEN <<fetch_log[n].out>> ELSE <<>>)

\* C21: the phases of a run follow one another without return: no page is
\* fetched before the links of every query are collected, so no search is
\* made after the first page fetch.
C21_SearchingBeforeScraping ==
    /\ prog = "agent" => (fetch_log # <<>> => query_i = NQueries)
    /\ prog = "product" => (fetch_log # <<>> => pc \in {"pool", "merge", "done"})

\* C22: whichever queries fail, every query is searched, every link a query
\* yields is fetched, and every page fetched is aggregated.
C22_QueryFailuresIsolated ==
    prog = "agent" =>
        /\ pc = "search" => FetchedUrls = handed
        /\ pc \in {"combine", "generate", "done", "errored"} =>
              /\ query_i = NQueries
              /\ FetchedUrls = handed
              /\ all_scraped_data = PagesFetched(Len(fetch_log))

\* C22 witness: every query but the last gave no link; the last query was
\* searched, its links fetched and a page of them aggregated.
C22_Witness ==
    /\ prog = "agent" /\ pc = "combine"
    /\ query_i = NQueries
    /\ urls # <<>>
    /\ handed = urls
    /\ FetchedUrls = urls
    /\ all_scraped_data # <<>>

\* C30: research_product returns a ProductInfo for every outcome of the text
\* generation step: the run never ends in an exception.
C30_GenerationNeverRaises ==
    prog = "agent" => pc # "errored"

----------------------------------------------------------------------------
(* Properties of the concurrent scraper. *)

\* The configured concurrency bound.
ConcurrencyBound == 5

\* The futures whose page fetch is in flight.
InFlight == {i \in 1..Len(task) : task[i] = "running"}

\* C23: every run eventually aggregates and returns, whichever request
\* does not respond.
C23_EventuallyAggregates ==
    <>(prog = "product" /\ pc = "done")

\* C24: at every moment at most 5 page fetches are in flight.
C24_AtMostFiveInFlight ==
    prog = "product" => Cardinality(InFlight) <= ConcurrencyBound

\* C24 witness: five fetches are in flight and a sixth future waits for a
\* worker.
C24_Witness ==
    /\ prog = "product" /\ pc = "pool"
    /\ Cardinality(InFlight) = ConcurrencyBound
    /\ \E i \in 1..Len(task) : task[i] = "queued"

\* C25: no object is used by two fetch units that run at the same time: at
\* most one running unit holds a context of the shared browser.
C25_NoSharedObjectInFlight ==
    prog = "product" =>
        Cardinality({i \in InFlight : contexts[i] = "open"}) <= 1

\* C27: the context a page fetch opened is closed when the fetch returns,
\* whether it succeeded or failed, and after the run neither a context nor
\* the browser is open.
C27_ContextsReleased ==
    prog = "product" =>
        /\ \A i \in 1..Len(task) : task[i] = "done" => contexts[i] # "open"
        /\ pc = "done" => browser # "open"

\* C28: the shared browser is closed only after every submitted future has
\* finished: a context is open and a fetch in flight only while the browser
\* is open, and the merge starts when all futures have completed and been
\* collected.
C28_BrowserClosedAfterAllTasks ==
    prog = "product" =>
        /\ \A i \in 1..Len(task) :
              (task[i] = "running" \/ contexts[i] = "open") => browser = "open"
        /\ browser = "closed" => \A i \in 1..Len(task) : task[i] = "done"
        /\ pc \in {"merge", "done"} =>
              /\ \A i \in 1..Len(task) : task[i] = "done"
              /\ finished = <<>>
              /\ Len(fetch_log) = Len(task)

\* C28 witness: a finished run of two fetches that completed in the
\* reverse of their submission order; the browser is closed.
C28_Witness ==
    /\ prog = "product" /\ pc = "done"
    /\ browser = "closed"
    /\ results_from = <<2, 1>>

----------------------------------------------------------------------------
(* Properties of the price classifiers, checked under SpecCurrency. *)

\* The numbers of a list.
Listed(list) == {list[i] : i \in 1..Len(list)}

\* The host of the URL ends in the Canadian top-level domain.
CanadianHost(url) == url[2] = "store.ca"

\* A Canadian signal stands with the token: the host of the page, the word
\* Canada in its text, or a CAD marker in its text.
CanadianSignal(page) ==
    \/ CanadianHost(page.url)
    \/ page.canada
    \/ \E i \in 1..Len(page.text) : page.text[i].mark \in {"CAD", "C$", "CA$"}

\* C26: a bare $ token is USD unless a Canadian signal is present, a token
\* with an explicit USD marker is USD, and the characters ".ca" elsewhere in
\* the URL do not make a price CAD, in the classifiers of app.py and of
\* product.py.
C26_DollarIsUsdWithoutCanadianSignal ==
    (prog = "currency" /\ pc = "done" /\ price_lists.by \in {"app", "product"}) =>
        \A i \in 1..Len(priced_page.text) :
            LET token == priced_page.text[i]
                as_usd == /\ token.cents \in Listed(price_lists.usd)
                          /\ token.cents \notin Listed(price_lists.cad)
            IN  /\ (token.mark = "$" /\ ~ CanadianSignal(priced_page)) => as_usd
                /\ token.mark \in {"USD", "US$"} => as_usd

\* C29: a price token is counted in at most one currency list, and a token
\* with a Canadian marker (CAD, C$, CA$) is not among the USD prices.
C29_TokenInOneCurrencyList ==
    (prog = "currency" /\ pc = "done") =>
        \A i \in 1..Len(priced_page.text) :
            LET token == priced_page.text[i]
            IN  /\ ~ (/\ token.cents \in Listed(price_lists.usd)
                      /\ token.cents \in Listed(price_lists.cad))
                /\ token.mark \in {"CAD", "C$", "CA$"} =>
                      token.cents \notin Listed(price_lists.usd)

====
